---- MODULE Spec2Model ----
(***************************************************************************)
(* Model of sample-app/app.py: a Flask service instrumented with           *)
(* prometheus_client.  Requests are served by concurrent worker threads;   *)
(* every request runs before_request, then the routed view function (or    *)
(* the framework's error response), then after_request.                    *)
(*                                                                         *)
(* Time is counted in units of half a second.  `wall` is the value         *)
(* time.time() returns: the wall clock, which the environment may set     *)
(* back.                                                                   *)
(***************************************************************************)
EXTENDS Integers, FiniteSets, Sequences, TLC

\* ------------------------------------------------------------------ bounds
MaxRequests == 2         \* requests received in one behaviour
MaxClock == 1            \* largest wall-clock reading (but see TickLate)
MaxSpin == 1             \* largest load duration explored (half seconds)

\* ------------------------------------------------------- program constants
HighLoadPercent == 90    \* health: cpu_percent > 90 or memory.percent > 90
ServerErrorPct == 20     \* simulate_error: error_chance < 0.2 (hundredths)
ClientErrorPct == 30     \* simulate_error: error_chance < 0.3 (hundredths)
BusinessOpen == 9        \* user_activity: 9 <= hour
BusinessClose == 17      \* user_activity: hour <= 17
LoadMin == 1             \* random.uniform(0.5, 3.0): 0.5 s
LoadMax == 6             \* random.uniform(0.5, 3.0): 3.0 s
CentisPerUnit == 50      \* one time unit (0.5 s) in hundredths of a second

\* app.run serves each request in its own thread; two run concurrently.
Threads == {1, 2}
Methods == {"GET", "POST"}
Paths == {"/", "/health", "/simulate-load", "/simulate-error",
          "/user-activity", "/metrics", "/nope"}
None == "None"

\* random.randint(a, b): an integer in a..b; both ends are explored.
RandInt(a, b) == {a, b}

\* random.random() in hundredths: both ends and the values around the
\* thresholds.
Draws == {0, 19, 20, 29, 30, 99}

\* time.localtime().tm_hour
Hours == {8, 9, 17, 18}

\* psutil readings (percent) and psutil failures.
StatReadings == {90, 91}
StatOk(v) == [ok |-> TRUE, val |-> v, msg |-> ""]
StatFail(m) == [ok |-> FALSE, val |-> 0, msg |-> m]
Unread == [ok |-> FALSE, val |-> 0, msg |-> ""]
CpuOutcomes == {StatOk(v) : v \in StatReadings} \cup {StatFail("cpu_percent failed")}
MemOutcomes == {StatOk(v) : v \in StatReadings} \cup {StatFail("virtual_memory failed")}

VARIABLES
    wall,             \* time.time()
    REQUEST_COUNT,    \* app_requests_total: <<method, endpoint, status_code>> -> value
    REQUEST_LATENCY,  \* app_request_duration_seconds: endpoint -> observations
    ACTIVE_USERS,     \* app_active_users
    SYSTEM_CPU,       \* app_system_cpu_percent
    SYSTEM_MEMORY,    \* app_system_memory_percent
    ERROR_COUNT,      \* app_errors_total: error_type -> value
    pc,               \* per thread: position in the request lifecycle
    request,          \* per thread: flask.request (method, endpoint, routing error)
    g_start_time,     \* per thread: flask.g.start_time
    local,            \* per thread: the view function's local variables
    response,         \* per thread: the response handed to after_request
    request_duration, \* per thread: after_request's request_duration
    received,         \* history: number of requests received
    responses         \* history: <<method, endpoint, status>> -> responses produced

vars == <<wall, REQUEST_COUNT, REQUEST_LATENCY, ACTIVE_USERS, SYSTEM_CPU,
          SYSTEM_MEMORY, ERROR_COUNT, pc, request, g_start_time, local,
          response, request_duration, received, responses>>

gauges == <<ACTIVE_USERS, SYSTEM_CPU, SYSTEM_MEMORY>>
timing == <<REQUEST_COUNT, REQUEST_LATENCY>>

\* --------------------------------------------------------------- instruments
\* Value of a labelled series; a series not yet created reads as 0.
Val(c, k) == IF k \in DOMAIN c THEN c[k] ELSE 0

\* A lost update: the increment overwrites the series with 1.
CounterIncLost(c, k) == (k :> 1) @@ c

\* Counter.labels(...).inc(): creates the series at 0 if unseen, then adds 1.
\* prometheus_client performs the addition under the series' lock, so it is
\* one atomic step.
CounterInc(c, k) == (k :> (Val(c, k) + 1)) @@ c

\* An observe that drops observations for the 'unknown' endpoint.
HistObserveSkipUnknown(h, ep, v) ==
    IF ep = "unknown" THEN h ELSE (ep :> (Val(h, ep) + 1)) @@ h

\* Histogram.labels(endpoint).observe(v): one more observation in the series
\* (the series is kept as its observation count, _count).
HistObserve(h, ep, v) == (ep :> (Val(h, ep) + 1)) @@ h

\* One more entry in a history count.
Recorded(h, k) == (k :> (Val(h, k) + 1)) @@ h

RECURSIVE SumOver(_, _)
SumOver(f, S) ==
    IF S = {} THEN 0
    ELSE LET k == CHOOSE x \in S : TRUE IN f[k] + SumOver(f, S \ {k})

CounterTotal(c) == SumOver(c, DOMAIN c)
HistTotal(h) == SumOver(h, DOMAIN h)

\* ------------------------------------------------------------------ routing
\* @app.route: the view function (= endpoint name) bound to each path.
ViewOf(path) ==
    CASE path = "/" -> "home"
      [] path = "/health" -> "health"
      [] path = "/simulate-load" -> "simulate_load"
      [] path = "/simulate-error" -> "simulate_error"
      [] path = "/user-activity" -> "user_activity"
      [] path = "/metrics" -> "metrics"
      [] OTHER -> None

\* URL matching: flask.request.endpoint is the matched rule's endpoint, or
\* None when matching fails (404 for an unknown path, 405 for a method the
\* rule does not accept; the routes accept GET).
Route(method, path) ==
    IF ViewOf(path) = None THEN [endpoint |-> None, error |-> 404]
    ELSE IF method # "GET" THEN [endpoint |-> None, error |-> 405]
    ELSE [endpoint |-> ViewOf(path), error |-> 0]

\* A label that uses the raw endpoint, without the 'unknown' fallback, and
\* files every matched endpoint under 'home'.
EndpointLabelHome(endpoint) == IF endpoint = None THEN "unknown" ELSE "home"

\* flask.request.endpoint or 'unknown'
EndpointLabel(endpoint) == IF endpoint = None THEN "unknown" ELSE endpoint

NoBody == [kind |-> "none"]
NoLocal == [kind |-> "none"]
NoResponse == [status_code |-> 0, body |-> NoBody]
NoRequest == [method |-> "GET", endpoint |-> None, routing_exception |-> 0]

\* The instruments as constructed when the module is loaded; no request yet.
Init ==
    /\ wall = 0
    /\ REQUEST_COUNT = <<>>
    /\ REQUEST_LATENCY = <<>>
    /\ ACTIVE_USERS = 0
    /\ SYSTEM_CPU = 0
    /\ SYSTEM_MEMORY = 0
    /\ ERROR_COUNT = <<>>
    /\ pc = [t \in Threads |-> "idle"]
    /\ request = [t \in Threads |-> NoRequest]
    /\ g_start_time = [t \in Threads |-> 0]
    /\ local = [t \in Threads |-> NoLocal]
    /\ response = [t \in Threads |-> NoResponse]
    /\ request_duration = [t \in Threads |-> 0]
    /\ received = 0
    /\ responses = <<>>


\* ------------------------------------------------------------ view functions
\* Each view is a function of its inputs giving the response and the
\* error_type whose ERROR_COUNT series it increments (None: no increment).
Reply(code, body, err) == [status_code |-> code, body |-> body, error |-> err]

\* The success path of health() with the thresholds compared by >=.
HealthOkAtLeast(cpu, mem) ==
    IF cpu >= HighLoadPercent \/ mem >= HighLoadPercent THEN
        Reply(200, [kind |-> "health", status |-> "degraded",
                    cpu_percent |-> cpu, memory_percent |-> mem,
                    warnings |->
                        (IF cpu >= HighLoadPercent THEN <<"High CPU usage">> ELSE <<>>)
                        \o (IF mem >= HighLoadPercent THEN <<"High memory usage">> ELSE <<>>)],
              None)
    ELSE
        Reply(200, [kind |-> "health", status |-> "healthy",
                    cpu_percent |-> cpu, memory_percent |-> mem],
              None)

\* health(), both reads successful: 'healthy', or 'degraded' with one
\* warning per exceeded threshold.  The 'warnings' key exists only when
\* degraded.
HealthOk(cpu, mem) ==
    IF cpu > HighLoadPercent \/ mem > HighLoadPercent THEN
        Reply(200, [kind |-> "health", status |-> "degraded",
                    cpu_percent |-> cpu, memory_percent |-> mem,
                    warnings |->
                        (IF cpu > HighLoadPercent THEN <<"High CPU usage">> ELSE <<>>)
                        \o (IF mem > HighLoadPercent THEN <<"High memory usage">> ELSE <<>>)],
              None)
    ELSE
        Reply(200, [kind |-> "health", status |-> "healthy",
                    cpu_percent |-> cpu, memory_percent |-> mem],
              None)

\* An except clause that reports the failure but returns the default status.
HealthExceptOk(msg) ==
    Reply(200, [kind |-> "health", status |-> "unhealthy", error |-> msg],
          "health_check")

\* health()'s except clause: str(e) in an 'unhealthy' body, status 500, and
\* the 'health_check' error counted.
HealthExcept(msg) ==
    Reply(500, [kind |-> "health", status |-> "unhealthy", error |-> msg],
          "health_check")

\* health(): cpu is psutil.cpu_percent(interval=1), mem is
\* psutil.virtual_memory(); either may raise, and the memory read only
\* happens when the CPU read succeeded.
HealthView(cpu, mem) ==
    IF ~cpu.ok THEN HealthExcept(cpu.msg)
    ELSE IF ~mem.ok THEN HealthExcept(mem.msg)
    ELSE HealthOk(cpu.val, mem.val)

\* simulate_error() with the client-error branch tested first.
SimulateErrorViewSwapped(x, v) ==
    IF x < ClientErrorPct THEN
        Reply(400, [kind |-> "error", error |-> "Bad request"], "client_error")
    ELSE
        Reply(200, [kind |-> "simulate_error", message |-> "Success response",
                    value |-> v], None)

\* simulate_error(): x is random.random() in hundredths, v is
\* random.randint(1, 100).
SimulateErrorView(x, v) ==
    IF x < ServerErrorPct THEN
        Reply(500, [kind |-> "error", error |-> "Internal server error"],
              "server_error")
    ELSE IF x < ClientErrorPct THEN
        Reply(400, [kind |-> "error", error |-> "Bad request"], "client_error")
    ELSE
        Reply(200, [kind |-> "simulate_error", message |-> "Success response",
                    value |-> v], None)

\* user_activity()'s range with the closing hour excluded.
UsersRangeExclusive(hour) ==
    IF BusinessOpen <= hour /\ hour < BusinessClose THEN RandInt(30, 80)
    ELSE RandInt(5, 25)

\* user_activity(): the values random.randint may return for the hour.
UsersRange(hour) ==
    IF BusinessOpen <= hour /\ hour <= BusinessClose THEN RandInt(30, 80)
    ELSE RandInt(5, 25)

\* f'{duration:.2f}s': the duration in hundredths of a second.
FormatSeconds(d) == d * CentisPerUnit

\* random.uniform(0.5, 3.0), in time units.
LoadDurations == {d \in LoadMin..LoadMax : d <= MaxSpin}

\* The response Flask builds for an exception that leaves the view function:
\* InternalServerError, status 500; after_request still runs on it.
UnhandledResponse == Reply(500, [kind |-> "html", error |-> "Internal Server Error"], None)

\* The except clauses of the views: the error_type counted for an exception
\* raised in the view's body, None when the view has no try/except.
ExceptClause(endpoint) ==
    CASE endpoint = "health" -> "health_check"
      [] endpoint = "simulate_load" -> "load_simulation"
      [] endpoint = "metrics" -> "metrics_error"
      [] OTHER -> None


\* ------------------------------------------------------------------ actions
\* A worker thread takes a request: URL matching, then before_request stores
\* time.time() in flask.g.start_time.
Receive(t) ==
    /\ pc[t] = "idle"
    /\ received < MaxRequests
    /\ \E m \in Methods, p \in Paths :
          request' = [request EXCEPT ![t] =
                         [method |-> m, endpoint |-> Route(m, p).endpoint,
                          routing_exception |-> Route(m, p).error]]
    /\ g_start_time' = [g_start_time EXCEPT ![t] = wall]
    /\ pc' = [pc EXCEPT ![t] = "dispatch"]
    /\ received' = received + 1
    /\ UNCHANGED <<wall, timing, gauges, ERROR_COUNT, local, response,
                   request_duration, responses>>

\* The view (or the framework) hands its response to after_request; the
\* view's ERROR_COUNT increment, if any, has happened by then.
Respond(t, r) ==
    /\ response' = [response EXCEPT ![t] = [status_code |-> r.status_code, body |-> r.body]]
    /\ ERROR_COUNT' = IF r.error = None THEN ERROR_COUNT
                      ELSE CounterInc(ERROR_COUNT, r.error)
    /\ responses' = Recorded(responses,
                        <<request[t].method, request[t].endpoint, r.status_code>>)
    /\ pc' = [pc EXCEPT ![t] = "ready"]

\* URL matching failed: the framework answers 404 or 405 without a view.
RouteError(t) ==
    /\ pc[t] = "dispatch"
    /\ request[t].endpoint = None
    /\ Respond(t, Reply(request[t].routing_exception,
                        [kind |-> "html", error |-> "routing"], None))
    /\ UNCHANGED <<wall, timing, gauges, request, g_start_time, local,
                   request_duration, received>>

\* home(): the static page.
Home(t) ==
    /\ pc[t] = "dispatch"
    /\ request[t].endpoint = "home"
    /\ Respond(t, Reply(200, [kind |-> "html", error |-> ""], None))
    /\ UNCHANGED <<wall, timing, gauges, request, g_start_time, local,
                   request_duration, received>>

Health(t) ==
    /\ pc[t] = "dispatch"
    /\ request[t].endpoint = "health"
    /\ \E cpu \in CpuOutcomes, mem \in MemOutcomes :
          /\ local' = [local EXCEPT ![t] =
                          [kind |-> "health", cpu_percent |-> cpu,
                           memory |-> IF cpu.ok THEN mem ELSE Unread]]
          /\ Respond(t, HealthView(cpu, mem))
    /\ UNCHANGED <<wall, timing, gauges, request, g_start_time,
                   request_duration, received>>

\* simulate_load() up to the loop: duration and start_time are taken.
SimulateLoadStart(t) ==
    /\ pc[t] = "dispatch"
    /\ request[t].endpoint = "simulate_load"
    /\ \E d \in LoadDurations :
          local' = [local EXCEPT ![t] =
                       [kind |-> "load", duration |-> d, start_time |-> wall,
                        elapsed |-> 0]]
    /\ pc' = [pc EXCEPT ![t] = "spin"]
    /\ UNCHANGED <<wall, timing, gauges, ERROR_COUNT, request, g_start_time,
                   response, request_duration, received, responses>>

\* The loop `while time.time() - start_time < duration` ends; the gauge is
\* set and the response built.  local.elapsed records the time the loop took.
SimulateLoadFinish(t) ==
    /\ pc[t] = "spin"
    /\ ~(wall - local[t].start_time < local[t].duration)
    /\ local' = [local EXCEPT ![t].elapsed = wall - local[t].start_time]
    /\ ACTIVE_USERS' \in RandInt(20, 100)
    /\ Respond(t, Reply(200, [kind |-> "load", message |-> "Load simulation completed",
                              duration |-> FormatSeconds(local[t].duration)],
                        None))
    /\ UNCHANGED <<wall, timing, SYSTEM_CPU, SYSTEM_MEMORY, request,
                   g_start_time, request_duration, received>>

SimulateError(t) ==
    /\ pc[t] = "dispatch"
    /\ request[t].endpoint = "simulate_error"
    /\ \E x \in Draws, v \in RandInt(1, 100) :
          /\ local' = [local EXCEPT ![t] = [kind |-> "error", error_chance |-> x]]
          /\ Respond(t, SimulateErrorView(x, v))
    /\ UNCHANGED <<wall, timing, gauges, request, g_start_time,
                   request_duration, received>>

UserActivity(t) ==
    /\ pc[t] = "dispatch"
    /\ request[t].endpoint = "user_activity"
    /\ \E hour \in Hours :
          \E users \in UsersRange(hour) :
              /\ local' = [local EXCEPT ![t] =
                              [kind |-> "activity", hour |-> hour, users |-> users]]
              /\ ACTIVE_USERS' = users
              /\ Respond(t, Reply(200, [kind |-> "activity", active_users |-> users,
                                        hour |-> hour], None))
    /\ UNCHANGED <<wall, timing, SYSTEM_CPU, SYSTEM_MEMORY, request,
                   g_start_time, request_duration, received>>

\* metrics(), first statement: SYSTEM_CPU.set(psutil.cpu_percent(interval=0.1)).
MetricsCpu(t) ==
    /\ pc[t] = "dispatch"
    /\ request[t].endpoint = "metrics"
    /\ \E cpu \in CpuOutcomes :
          IF cpu.ok
          THEN /\ SYSTEM_CPU' = cpu.val
               /\ pc' = [pc EXCEPT ![t] = "metrics_memory"]
               /\ UNCHANGED <<ERROR_COUNT, response, responses>>
          ELSE /\ Respond(t, Reply(500, [kind |-> "text", error |-> "# Metrics unavailable"],
                                   "metrics_error"))
               /\ UNCHANGED SYSTEM_CPU
    /\ UNCHANGED <<wall, timing, ACTIVE_USERS, SYSTEM_MEMORY, request,
                   g_start_time, local, request_duration, received>>

\* metrics(), the rest: SYSTEM_MEMORY.set(psutil.virtual_memory().percent)
\* and generate_latest(), which reads the instruments.
MetricsMemory(t) ==
    /\ pc[t] = "metrics_memory"
    /\ \E mem \in MemOutcomes :
          IF mem.ok
          THEN /\ SYSTEM_MEMORY' = mem.val
               /\ Respond(t, Reply(200, [kind |-> "exposition", error |-> ""], None))
          ELSE /\ Respond(t, Reply(500, [kind |-> "text", error |-> "# Metrics unavailable"],
                                   "metrics_error"))
               /\ UNCHANGED SYSTEM_MEMORY
    /\ UNCHANGED <<wall, timing, ACTIVE_USERS, SYSTEM_CPU, request,
                   g_start_time, local, request_duration, received>>

\* after_request, first half: request_duration is computed and the
\* REQUEST_COUNT series of (method, endpoint or 'unknown', status) incremented.
\* The start time, the view's locals and the response are not read again.
AfterRequestCount(t) ==
    /\ pc[t] = "ready"
    /\ request_duration' = [request_duration EXCEPT ![t] = wall - g_start_time[t]]
    /\ REQUEST_COUNT' = CounterInc(REQUEST_COUNT,
                            <<request[t].method, EndpointLabel(request[t].endpoint),
                              response[t].status_code>>)
    /\ pc' = [pc EXCEPT ![t] = "counted"]
    /\ g_start_time' = [g_start_time EXCEPT ![t] = 0]
    /\ local' = [local EXCEPT ![t] = NoLocal]
    /\ response' = [response EXCEPT ![t] = NoResponse]
    /\ UNCHANGED <<wall, REQUEST_LATENCY, gauges, ERROR_COUNT, request,
                   received, responses>>

\* after_request, second half: the duration is observed under the endpoint.
\* The request context (flask.request, flask.g) ends with the request.
AfterRequestObserve(t) ==
    /\ pc[t] = "counted"
    /\ REQUEST_LATENCY' = HistObserve(REQUEST_LATENCY,
                              EndpointLabel(request[t].endpoint), request_duration[t])
    /\ pc' = [pc EXCEPT ![t] = "idle"]
    /\ request' = [request EXCEPT ![t] = NoRequest]
    /\ request_duration' = [request_duration EXCEPT ![t] = 0]
    /\ UNCHANGED <<wall, REQUEST_COUNT, gauges, ERROR_COUNT, g_start_time,
                   local, response, received, responses>>

\* Time passes.
Tick ==
    /\ wall < MaxClock
    /\ wall' = wall + 1
    /\ UNCHANGED <<timing, gauges, ERROR_COUNT, pc, request, g_start_time,
                   local, response, request_duration, received, responses>>

\* Time passes while a load loop is running, until one unit past the end of
\* its duration: the loop's next test of the clock comes late.
TickLate ==
    /\ wall >= MaxClock
    /\ \E t \in Threads :
          pc[t] = "spin" /\ wall - local[t].start_time <= local[t].duration
    /\ wall' = wall + 1
    /\ UNCHANGED <<timing, gauges, ERROR_COUNT, pc, request, g_start_time,
                   local, response, request_duration, received, responses>>

\* The wall clock is set back (NTP step, manual adjustment).
ClockAdjust ==
    /\ wall > 0
    /\ wall' = wall - 1
    /\ UNCHANGED <<timing, gauges, ERROR_COUNT, pc, request, g_start_time,
                   local, response, request_duration, received, responses>>

\* An exception is raised inside a view's body.  A view with a try/except
\* counts its error_type and answers 500 itself; from the other views the
\* exception reaches the framework, which answers 500.
HandlerFault(t) ==
    /\ pc[t] \in {"dispatch", "spin", "metrics_memory"}
    /\ request[t].endpoint # None
    /\ Respond(t, IF ExceptClause(request[t].endpoint) = None
                  THEN UnhandledResponse
                  ELSE Reply(500, [kind |-> "error", error |-> "fault"],
                             ExceptClause(request[t].endpoint)))
    /\ local' = [local EXCEPT ![t] = [kind |-> "fault"]]
    /\ UNCHANGED <<wall, timing, gauges, request, g_start_time,
                   request_duration, received>>

Next ==
    \/ \E t \in Threads : Receive(t)
    \/ \E t \in Threads : RouteError(t)
    \/ \E t \in Threads : Home(t)
    \/ \E t \in Threads : Health(t)
    \/ \E t \in Threads : SimulateLoadStart(t)
    \/ \E t \in Threads : SimulateLoadFinish(t)
    \/ \E t \in Threads : SimulateError(t)
    \/ \E t \in Threads : UserActivity(t)
    \/ \E t \in Threads : MetricsCpu(t)
    \/ \E t \in Threads : MetricsMemory(t)
    \/ \E t \in Threads : AfterRequestCount(t)
    \/ \E t \in Threads : AfterRequestObserve(t)
    \/ Tick

Spec == Init /\ [][Next]_vars

\* The same program under every behaviour of the wall clock: it runs on
\* while a load loop spins, and it may be set back.
NextClock == Next \/ TickLate \/ ClockAdjust

SpecClock == Init /\ [][NextClock]_vars

\* The same program when a view's body may raise.
NextFault == Next \/ \E t \in Threads : HandlerFault(t)

SpecFault == Init /\ [][NextFault]_vars


\* --------------------------------------------------------------- properties
\* The label a request's endpoint is filed under.
Label(e) == IF e = None THEN "unknown" ELSE e

\* The REQUEST_COUNT series of the request thread t is completing.
SeriesOf(t) ==
    <<request[t].method, Label(request[t].endpoint), response[t].status_code>>

\* c2 is c1 with series k one higher and every other series as it was.
Bumped(c2, c1, k) ==
    /\ DOMAIN c2 = DOMAIN c1 \cup {k}
    /\ c2[k] = Val(c1, k) + 1
    /\ \A j \in DOMAIN c1 \ {k} : c2[j] = c1[j]

\* c2 and c1 hold the same series with the same values.
Same(c2, c1) == DOMAIN c2 = DOMAIN c1 /\ \A j \in DOMAIN c1 : c2[j] = c1[j]

Uncounted == {t \in Threads : pc[t] \in {"dispatch", "spin", "metrics_memory", "ready"}}
Unobserved == {t \in Threads : pc[t] # "idle"}
Quiescent == \A t \in Threads : pc[t] = "idle"

\* Thread t's view has just returned its response in this step.
Returned(t, endpoint) ==
    /\ pc[t] \in {"dispatch", "spin", "metrics_memory"}
    /\ request[t].endpoint = endpoint
    /\ pc'[t] = "ready"

\* Thread t holds the response of the view `endpoint`, not yet counted.
Holding(t, endpoint) == pc[t] = "ready" /\ request[t].endpoint = endpoint

\* The error_type a response of a view was counted under, None if none.
ErrorTypeOf(r) ==
    CASE r[2] = "simulate_error" /\ r[3] = 500 -> "server_error"
      [] r[2] = "simulate_error" /\ r[3] = 400 -> "client_error"
      [] r[2] = "health" /\ r[3] = 500 -> "health_check"
      [] r[2] = "metrics" /\ r[3] = 500 -> "metrics_error"
      [] OTHER -> None

\* C2: every completed request adds exactly 1 to exactly one REQUEST_COUNT
\* series, the one labelled with its method, its endpoint (or 'unknown') and
\* its status code, and exactly one observation to the REQUEST_LATENCY series
\* of the same endpoint label; so the counts of all series add up to the
\* number of requests counted so far, the observations to the number of
\* requests observed so far, and both to the number of requests when none is
\* in flight.
C2_State ==
    /\ CounterTotal(REQUEST_COUNT) = received - Cardinality(Uncounted)
    /\ HistTotal(REQUEST_LATENCY) = received - Cardinality(Unobserved)
    /\ Quiescent => /\ CounterTotal(REQUEST_COUNT) = received
                    /\ HistTotal(REQUEST_LATENCY) = CounterTotal(REQUEST_COUNT)
    /\ \A k \in DOMAIN REQUEST_COUNT :
          Val(REQUEST_LATENCY, k[2])
            + Cardinality({t \in Threads : pc[t] = "counted"
                                           /\ Label(request[t].endpoint) = k[2]})
          = SumOver(REQUEST_COUNT, {j \in DOMAIN REQUEST_COUNT : j[2] = k[2]})
    /\ \A ep \in DOMAIN REQUEST_LATENCY : \E k \in DOMAIN REQUEST_COUNT : k[2] = ep

C2_Step ==
    \A t \in Threads :
        /\ (pc[t] = "ready" /\ pc'[t] = "counted") =>
              /\ Bumped(REQUEST_COUNT', REQUEST_COUNT, SeriesOf(t))
              /\ Same(REQUEST_LATENCY', REQUEST_LATENCY)
        /\ (pc[t] = "counted" /\ pc'[t] = "idle") =>
              /\ Bumped(REQUEST_LATENCY', REQUEST_LATENCY, Label(request[t].endpoint))
              /\ Same(REQUEST_COUNT', REQUEST_COUNT)

C2_EveryRequestCountedOnce == []C2_State /\ [][C2_Step]_vars

\* Both requests have completed, one of them to an unknown path.
C2_Witness ==
    /\ Quiescent
    /\ received = MaxRequests
    /\ Val(REQUEST_COUNT, <<"GET", "unknown", 404>>) = 1
    /\ Val(REQUEST_LATENCY, "unknown") = 1
    /\ CounterTotal(REQUEST_COUNT) = 2

Has(seq, x) == \E i \in 1..Len(seq) : seq[i] = x

\* C4: when both stat reads succeed, /health answers 200; the status is
\* 'degraded' exactly when cpu > 90 or memory > 90 and 'healthy' without a
\* warnings list otherwise; a degraded body warns 'High CPU usage' exactly when
\* cpu > 90 and 'High memory usage' exactly when memory > 90, and nothing
\* else; and the view leaves every ERROR_COUNT series as it was.
C4_State ==
    \A t \in Threads :
        (/\ Holding(t, "health")
         /\ local[t].kind = "health"
         /\ local[t].cpu_percent.ok
         /\ local[t].memory.ok) =>
            LET cpu == local[t].cpu_percent.val
                mem == local[t].memory.val
                b == response[t].body
            IN  /\ response[t].status_code = 200
                /\ b.cpu_percent = cpu /\ b.memory_percent = mem
                /\ b.status = (IF cpu > 90 \/ mem > 90 THEN "degraded" ELSE "healthy")
                /\ b.status = "healthy" => "warnings" \notin DOMAIN b
                /\ b.status = "degraded" =>
                      /\ "warnings" \in DOMAIN b
                      /\ Has(b.warnings, "High CPU usage") <=> cpu > 90
                      /\ Has(b.warnings, "High memory usage") <=> mem > 90
                      /\ Len(b.warnings) = (IF cpu > 90 THEN 1 ELSE 0)
                                           + (IF mem > 90 THEN 1 ELSE 0)

C4_Step ==
    \A t \in Threads :
        (/\ Returned(t, "health")
         /\ local'[t].kind = "health"
         /\ local'[t].cpu_percent.ok
         /\ local'[t].memory.ok) => Same(ERROR_COUNT', ERROR_COUNT)

C4_HealthThresholds == []C4_State /\ [][C4_Step]_vars

\* A reading of exactly 90 does not warn while 91 does.
C4_Witness ==
    \E t \in Threads :
        /\ Holding(t, "health")
        /\ local[t].cpu_percent = StatOk(90)
        /\ local[t].memory = StatOk(91)
        /\ response[t].body.status = "degraded"
        /\ response[t].body.warnings = <<"High memory usage">>

\* C5: /simulate-error answers 500 and adds 1 to 'server_error' when the draw
\* is below 0.2, answers 400 and adds 1 to 'client_error' when it is in
\* [0.2, 0.3), and answers 200 with a value in 1..100, changing no error
\* series, otherwise; so 'server_error' equals the number of 500 responses
\* and 'client_error' the number of 400 responses of the endpoint.
C5_State ==
    /\ \A t \in Threads :
          (Holding(t, "simulate_error") /\ local[t].kind = "error") =>
              LET x == local[t].error_chance
                  r == response[t]
              IN  /\ x < 20 => r.status_code = 500
                  /\ (20 <= x /\ x < 30) => r.status_code = 400
                  /\ x >= 30 => r.status_code = 200 /\ r.body.value \in 1..100
    /\ Val(ERROR_COUNT, "server_error")
       = Val(REQUEST_COUNT, <<"GET", "simulate_error", 500>>)
         + Cardinality({t \in Threads : Holding(t, "simulate_error")
                                        /\ response[t].status_code = 500})
    /\ Val(ERROR_COUNT, "client_error")
       = Val(REQUEST_COUNT, <<"GET", "simulate_error", 400>>)
         + Cardinality({t \in Threads : Holding(t, "simulate_error")
                                        /\ response[t].status_code = 400})

C5_Step ==
    \A t \in Threads :
        (Returned(t, "simulate_error") /\ local'[t].kind = "error") =>
            LET x == local'[t].error_chance
            IN  /\ x < 20 => Bumped(ERROR_COUNT', ERROR_COUNT, "server_error")
                /\ (20 <= x /\ x < 30) => Bumped(ERROR_COUNT', ERROR_COUNT, "client_error")
                /\ x >= 30 => Same(ERROR_COUNT', ERROR_COUNT)

C5_ErrorSimulation == []C5_State /\ [][C5_Step]_vars

\* Draws on both sides of the thresholds have been answered and counted.
C5_Witness ==
    /\ Quiescent
    /\ Val(ERROR_COUNT, "server_error") = 1
    /\ Val(ERROR_COUNT, "client_error") = 1
    /\ Val(REQUEST_COUNT, <<"GET", "simulate_error", 500>>) = 1
    /\ Val(REQUEST_COUNT, <<"GET", "simulate_error", 400>>) = 1

\* C8: when the CPU read or the memory read of /health raises, the view
\* answers 500 with status 'unhealthy' and the failure's message, adds 1 to
\* the 'health_check' error series and changes no other error series, and
\* after_request counts the request once under (GET, health, 500).
C8_State ==
    \A t \in Threads :
        (/\ Holding(t, "health")
         /\ local[t].kind = "health"
         /\ ~(local[t].cpu_percent.ok /\ local[t].memory.ok)) =>
            /\ response[t].status_code = 500
            /\ response[t].body.status = "unhealthy"
            /\ response[t].body.error =
                  (IF local[t].cpu_percent.ok THEN local[t].memory.msg
                   ELSE local[t].cpu_percent.msg)
            /\ response[t].body.error \in {"cpu_percent failed", "virtual_memory failed"}

C8_Step ==
    \A t \in Threads :
        /\ (/\ Returned(t, "health")
            /\ local'[t].kind = "health"
            /\ ~(local'[t].cpu_percent.ok /\ local'[t].memory.ok)) =>
                Bumped(ERROR_COUNT', ERROR_COUNT, "health_check")
        /\ (/\ Holding(t, "health")
            /\ local[t].kind = "health"
            /\ ~(local[t].cpu_percent.ok /\ local[t].memory.ok)
            /\ pc'[t] = "counted") =>
                Bumped(REQUEST_COUNT', REQUEST_COUNT, <<"GET", "health", 500>>)

C8_HealthFailureRecovered == []C8_State /\ [][C8_Step]_vars

\* The memory read failed after a successful CPU read, and the request went on
\* to be counted.
C8_Witness ==
    /\ Val(ERROR_COUNT, "health_check") = 2
    /\ Val(REQUEST_COUNT, <<"GET", "health", 500>>) = 1
    /\ \E t \in Threads :
          /\ Holding(t, "health")
          /\ local[t].cpu_percent.ok
          /\ local[t].memory = StatFail("virtual_memory failed")

\* C9: /user-activity returns the hour it read and a users value in 30..80
\* when 9 <= hour <= 17 and in 5..25 otherwise, and the value it sets
\* ACTIVE_USERS to is the users value it returns.
C9_State ==
    \A t \in Threads :
        (Holding(t, "user_activity") /\ local[t].kind = "activity") =>
            LET h == local[t].hour
                b == response[t].body
            IN  /\ response[t].status_code = 200
                /\ b.hour = h
                /\ (9 <= h /\ h <= 17) => b.active_users \in 30..80
                /\ ~(9 <= h /\ h <= 17) => b.active_users \in 5..25

C9_Step ==
    \A t \in Threads :
        (Returned(t, "user_activity") /\ local'[t].kind = "activity") =>
            ACTIVE_USERS' = response'[t].body.active_users

C9_UserActivity == []C9_State /\ [][C9_Step]_vars

\* The last business hour: the gauge holds the value returned.
C9_Witness ==
    \E t \in Threads :
        /\ Holding(t, "user_activity")
        /\ response[t].body.hour = 17
        /\ response[t].body.active_users = 80
        /\ ACTIVE_USERS = 80


\* Only /metrics has been requested so far, and every pull has succeeded.
OnlyPulls ==
    /\ \A r \in DOMAIN responses : r = <<"GET", "metrics", 200>>
    /\ \A t \in Threads : pc[t] # "idle" => request[t].endpoint = "metrics"
    /\ CounterTotal(ERROR_COUNT) = 0

\* C7 as stated: pulls of /metrics with no other traffic leave every
\* REQUEST_COUNT series and every REQUEST_LATENCY series at the values they
\* had, here the values the instruments were constructed with.
C7_PullsLeaveTimingUntouched ==
    OnlyPulls => CounterTotal(REQUEST_COUNT) = 0 /\ HistTotal(REQUEST_LATENCY) = 0

\* C7, amended: the metrics view only sets SYSTEM_CPU and SYSTEM_MEMORY (and
\* counts 'metrics_error' when a read fails); it changes no REQUEST_COUNT or
\* REQUEST_LATENCY series and not ACTIVE_USERS.  The pull is itself a request:
\* on its completion after_request adds 1 to the REQUEST_COUNT series
\* (GET, 'metrics', status) and one observation to the REQUEST_LATENCY series
\* 'metrics', and leaves the series of every other endpoint unchanged.
C7_Step ==
    \A t \in Threads :
        (request[t].endpoint = "metrics" /\ pc'[t] # pc[t]) =>
            /\ ACTIVE_USERS' = ACTIVE_USERS
            /\ pc[t] \in {"dispatch", "metrics_memory"} =>
                  /\ Same(REQUEST_COUNT', REQUEST_COUNT)
                  /\ Same(REQUEST_LATENCY', REQUEST_LATENCY)
                  /\ \/ Same(ERROR_COUNT', ERROR_COUNT)
                     \/ Bumped(ERROR_COUNT', ERROR_COUNT, "metrics_error")
            /\ pc[t] = "ready" =>
                  /\ Bumped(REQUEST_COUNT', REQUEST_COUNT,
                            <<"GET", "metrics", response[t].status_code>>)
                  /\ Same(REQUEST_LATENCY', REQUEST_LATENCY)
                  /\ UNCHANGED <<SYSTEM_CPU, SYSTEM_MEMORY>>
            /\ pc[t] = "counted" =>
                  /\ Same(REQUEST_COUNT', REQUEST_COUNT)
                  /\ Bumped(REQUEST_LATENCY', REQUEST_LATENCY, "metrics")
                  /\ UNCHANGED <<SYSTEM_CPU, SYSTEM_MEMORY>>

C7_PullCountsOnlyItself == [][C7_Step]_vars

\* Two pulls and nothing else: both gauges refreshed, both pulls counted and
\* observed under 'metrics'.
C7_Witness ==
    /\ Quiescent
    /\ OnlyPulls
    /\ SYSTEM_CPU = 91 /\ SYSTEM_MEMORY = 90
    /\ Val(REQUEST_COUNT, <<"GET", "metrics", 200>>) = 2
    /\ Val(REQUEST_LATENCY, "metrics") = 2

\* C1 as stated: when an exception leaves a view that has no try/except, the
\* response is a 500, adds 1 to REQUEST_COUNT under status 500, and one
\* ERROR_COUNT series has been incremented by 1 for the request.
C1_Step ==
    \A t \in Threads :
        /\ (/\ Returned(t, request[t].endpoint)
            /\ local'[t].kind = "fault"
            /\ request[t].endpoint \in {"home", "simulate_error", "user_activity"}) =>
                /\ response'[t].status_code = 500
                /\ CounterTotal(ERROR_COUNT') = CounterTotal(ERROR_COUNT) + 1
        /\ (pc[t] = "ready" /\ local[t].kind = "fault" /\ pc'[t] = "counted") =>
                Bumped(REQUEST_COUNT', REQUEST_COUNT,
                       <<"GET", Label(request[t].endpoint), 500>>)

C1_UnhandledFaultCounted == [][C1_Step]_vars

\* C3 as stated: the duration after_request passes to the histogram is never
\* negative.
C3_DurationNeverNegative ==
    \A t \in Threads : pc[t] = "counted" => request_duration[t] >= 0

\* C10 as stated: /simulate-load picks a duration in [0.5 s, 3.0 s], leaves the
\* loop only when at least that much time has passed, and the duration in its
\* response is the time the loop actually took.
C10_ReturnsElapsed ==
    \A t \in Threads :
        (Holding(t, "simulate_load") /\ local[t].kind = "load") =>
            /\ local[t].duration \in LoadMin..LoadMax
            /\ local[t].elapsed >= local[t].duration
            /\ response[t].body.duration = FormatSeconds(local[t].elapsed)

====
